---- MODULE Spec2Model ----
(***************************************************************************)
(* Responsive Stretch RTD provider (modules/responsiveStretchProvider.js). *)
(*                                                                         *)
(* The source holds two revisions of the provider:                         *)
(*   "sync"     lines   1-351: measures width/height/viewport and          *)
(*              maxAvailableWidth, runs the whole cycle synchronously and  *)
(*              adds banner.wmax to the impression fragment;               *)
(*   "deferred" lines 353-698: measures the full stretch record, adds the  *)
(*              viewport to the payload and defers the cycle by one tick   *)
(*              (setTimeout 0).                                            *)
(* Both are modelled; the variable `variant` says which one is running.    *)
(*                                                                         *)
(* JSON objects are modelled as functions from key paths (sequences of     *)
(* strings) to leaves.  Lengths are kept in half pixels so that Math.round *)
(* is a real conversion.                                                   *)
(***************************************************************************)
EXTENDS Integers, Sequences, FiniteSets, TLC

VARIABLES
    variant,        \* which revision of the provider is loaded
    moduleConfig,   \* the moduleConfig argument (params.bidders/global/impLevel)
    req,            \* reqBidsConfigObj: adUnits and ortb2Fragments
    pbjsAdUnits,    \* getGlobal().adUnits
    dom,            \* the page: per slot code the lookup outcomes and the element
    viewport,       \* getViewportSize()
    callbackThrows, \* whether the completion callback raises when called
    clock,          \* Date.now()
    pc,             \* position of the cycle: "idle", "timer", "done"
    cbCount,        \* number of times the completion callback was invoked
    escaped,        \* an exception left getBidRequestData or the timer body
    stretchData,    \* the map last collected / last merged
    collectCount,   \* number of collectResponsiveStretchData calls
    collectThrew,   \* collectResponsiveStretchData raised
    mergeCount,     \* number of addStretchDataToORTB2 calls
    mergeThrew,     \* the last addStretchDataToORTB2 call raised
    pre,            \* reqBidsConfigObj as it was before the last merge call
    savedConfig,    \* _moduleConfig, as init left it
    initResult,     \* what init returned and what it warned about
    slotElement,    \* the element handed to calculateAdSlotSpace / getMaxAvailableWidth
    availableSpace, \* what calculateAdSlotSpace returned for it
    walk,           \* the loop of getMaxAvailableWidth: position, maxWidth, trail
    events,         \* what a cycle did, in order: "collect", "merge", "callback"
    search,         \* the loop of findAdSlotElement: code, position, strategies tried
    layout,         \* the host layout now (it changes when the page reflows)
    reads           \* the layout reads of one calculateAdSlotSpace call, in order

vars == <<variant, moduleConfig, req, pbjsAdUnits, dom, viewport, callbackThrows,
          clock, pc, cbCount, escaped, stretchData, collectCount, collectThrew, mergeCount,
          mergeThrew, pre, savedConfig, initResult, slotElement, availableSpace, walk,
          events, search, layout, reads>>

\* the variables of the cycle and of the merge step
cycleVars == <<variant, moduleConfig, req, pbjsAdUnits, dom, viewport, callbackThrows,
               clock, pc, cbCount, escaped, stretchData, collectCount, collectThrew,
               mergeCount, mergeThrew, pre, events>>

(***************************************************************************)
(* Bounds of the model.                                                    *)
(***************************************************************************)
MaxUnits == 2      \* longest ad-unit list
MaxMerges == 2     \* direct addStretchDataToORTB2 calls on one request

MODULE_NAME == "responsiveStretch"

Variants == {"sync", "deferred"}
Codes == {"ad-1", "ad-2"}
BidderNames == {"bidderA", "bidderB"}

(***************************************************************************)
(* JSON values.                                                            *)
(***************************************************************************)
Px(h) == <<"px", h>>            \* a length, in half pixels
Num(n) == <<"n", n>>            \* a unitless integer
Bool(b) == <<"b", b>>
JsNull == <<"null">>
JsInfinity == <<"inf">>
JsNaN == <<"nan">>
EmptyObj == <<"obj">>           \* leaf marking a nested empty object {}

EmptyObject == [p \in {} |-> EmptyObj]

IsPrefix(p, q) == Len(p) <= Len(q) /\ SubSeq(q, 1, Len(p)) = p
IsProperPrefix(p, q) == Len(p) < Len(q) /\ SubSeq(q, 1, Len(p)) = p

\* the object {p1: {p2: ... t}}
Graft(p, t) ==
    IF DOMAIN t = {}
    THEN IF p = <<>> THEN EmptyObject ELSE [q \in {p} |-> EmptyObj]
    ELSE [q \in {p \o r : r \in DOMAIN t} |-> t[SubSeq(q, Len(p) + 1, Len(q))]]

\* the value at key path p of t, as a tree of its own
Sub(t, p) ==
    LET below == {q \in DOMAIN t : IsPrefix(p, q) /\ ~(q = p /\ t[q] = EmptyObj)}
    IN  [r \in {SubSeq(q, Len(p) + 1, Len(q)) : q \in below} |-> t[p \o r]]

\* p names a key that exists in t (an object, possibly empty, or a scalar)
Has(t, p) == \E q \in DOMAIN t : IsPrefix(p, q)

Keys(t, p) == {q[Len(p) + 1] : q \in {r \in DOMAIN t : IsProperPrefix(p, r)}}

\* t without everything at or below p
Without(t, p) == [q \in {r \in DOMAIN t : ~IsPrefix(p, r)} |-> t[q]]

Obj2(t1, t2) == [q \in DOMAIN t1 \cup DOMAIN t2 |->
                    IF q \in DOMAIN t1 THEN t1[q] ELSE t2[q]]

(***************************************************************************)
(* utils.js                                                                *)
(***************************************************************************)
\* mergeDeep(target, source): recursive union, the source's leaf wins
mergeDeep(target, source) ==
    LET keepT == {q \in DOMAIN target :
                    \A r \in DOMAIN source :
                        /\ r # q
                        /\ ~(IsProperPrefix(r, q) /\ source[r] # EmptyObj)
                        /\ ~IsProperPrefix(q, r)}
        keepS == {r \in DOMAIN source :
                    ~(source[r] = EmptyObj /\
                      \E q \in DOMAIN target :
                          IsProperPrefix(r, q) \/ (q = r /\ target[q] = EmptyObj))}
        sameEmpty == {q \in DOMAIN target : q \in DOMAIN source
                        /\ target[q] = EmptyObj /\ source[q] = EmptyObj}
    IN  [q \in keepT \cup keepS \cup sameEmpty |->
            IF q \in keepS THEN source[q] ELSE target[q]]

\* bidders values: [kind |-> "undefined"], [kind |-> "array", items |-> <<..>>],
\* [kind |-> "string", items |-> <<>>] (a non-empty string, i.e. not an array)
isArray(v) == v.kind = "array"

isEmpty(v) ==
    CASE v.kind = "undefined" -> TRUE
      [] v.kind = "array" -> ~(Len(v.items) > 0)
      [] v.kind = "string" -> FALSE
      [] OTHER -> TRUE

(***************************************************************************)
(* The page layout.  An element is                                         *)
(*   [exists, throws, rect: [left, top, width, height], display, position, *)
(*    chain: the ancestors from parentElement upwards]                     *)
(* and an ancestor is [width, height, display, position, isBody].          *)
(***************************************************************************)
NoElement == [exists |-> FALSE, throws |-> FALSE,
              rect |-> [left |-> 0, top |-> 0, width |-> 0, height |-> 0],
              display |-> "block", position |-> "static", chain |-> <<>>]

Round(h) == 2 * ((h + 1) \div 2)        \* Math.round, on half pixels

MinW(m, w) == IF m = JsInfinity THEN Px(w) ELSE IF w < m[2] THEN Px(w) ELSE m

\* a walk in which every node constrains the width
Constrains_Any(node) == TRUE

\* style.display !== 'contents' && style.position !== 'absolute'
Constrains(node) == node.display # "contents" /\ node.position # "absolute"

\* a loop that also stops at an absolutely positioned node
LoopCondition_StopsAtAbsolute(nodes, i) ==
    i <= Len(nodes) /\ ~nodes[i].isBody /\ nodes[i].position # "absolute"

\* while (current && current !== document.body), current being node i
LoopCondition(nodes, i) == i <= Len(nodes) /\ ~nodes[i].isBody

\* the loop of getMaxAvailableWidth from node i of the walk on
RECURSIVE WalkFrom(_, _, _)
WalkFrom(nodes, i, maxWidth) ==
    IF ~LoopCondition(nodes, i)
    THEN maxWidth
    ELSE WalkFrom(nodes, i + 1,
            IF Constrains(nodes[i])
            THEN MinW(maxWidth, nodes[i].width)
            ELSE maxWidth)

\* a walk that starts at the parent
PathOf_AncestorsOnly(el) == el.chain

\* the nodes the walk can meet: current = el, then current.parentElement
PathOf(el) ==
    <<[width |-> el.rect.width, height |-> el.rect.height,
       display |-> el.display, position |-> el.position,
       isBody |-> FALSE]>> \o el.chain

getMaxAvailableWidth(el) == WalkFrom(PathOf(el), 1, JsInfinity)

RoundLeaf(x) == IF x = JsInfinity THEN JsInfinity ELSE Px(Round(x[2]))

\* Math.round((w / vw) * 100)
Percentage(w, vw) ==
    IF vw = 0
    THEN IF w = 0 THEN JsNaN ELSE JsInfinity
    ELSE Num((200 * w + vw) \div (2 * vw))

Leaf(p, v) == [q \in {p} |-> v]
Field(k, v) == Leaf(<<k>>, v)

calculateAdSlotSpaceSync(element, vp) ==
    IF ~element.exists THEN [ok |-> FALSE, data |-> EmptyObject]
    ELSE IF element.throws THEN [ok |-> FALSE, data |-> EmptyObject]
    ELSE [ok |-> TRUE, data |->
            Obj2(Field("width", Px(Round(element.rect.width))),
            Obj2(Field("height", Px(Round(element.rect.height))),
            Obj2(Field("viewportWidth", Px(Round(vp.width))),
            Obj2(Field("viewportHeight", Px(Round(vp.height))),
                 Field("maxAvailableWidth", RoundLeaf(getMaxAvailableWidth(element)))))))]

calculateAdSlotSpaceDeferred(element, vp) ==
    IF ~element.exists THEN [ok |-> FALSE, data |-> EmptyObject]
    ELSE IF element.throws THEN [ok |-> FALSE, data |-> EmptyObject]
    ELSE LET rect == [left |-> element.rect.left, top |-> element.rect.top,
                      width |-> element.rect.width, height |-> element.rect.height,
                      right |-> element.rect.left + element.rect.width,
                      bottom |-> element.rect.top + element.rect.height]
             hasParent == Len(element.chain) > 0
         IN [ok |-> TRUE, data |->
            Obj2(Field("width", Px(Round(rect.width))),
            Obj2(Field("height", Px(Round(rect.height))),
            Obj2(Field("top", Px(Round(rect.top))),
            Obj2(Field("left", Px(Round(rect.left))),
            Obj2(Field("right", Px(Round(vp.width - rect.right))),
            Obj2(Field("bottom", Px(Round(vp.height - rect.bottom))),
            Obj2(Field("maxWidth", Px(Round(vp.width))),
            Obj2(Field("maxHeight", Px(Round(vp.height))),
            Obj2(Field("stretchLeft", Px(Round(rect.left))),
            Obj2(Field("stretchRight", Px(Round(vp.width - rect.right))),
            Obj2(Field("stretchUp", Px(Round(rect.top))),
            Obj2(Field("stretchDown", Px(Round(vp.height - rect.bottom))),
            Obj2(Field("totalAvailableWidth",
                       Px(Round(rect.width + rect.left + (vp.width - rect.right)))),
            Obj2(Field("totalAvailableHeight",
                       Px(Round(rect.height + rect.top + (vp.height - rect.bottom)))),
            Obj2(Field("viewportWidth", Px(Round(vp.width))),
            Obj2(Field("viewportHeight", Px(Round(vp.height))),
            Obj2(Field("isVisible",
                       Bool(rect.width > 0 /\ rect.height > 0 /\
                            rect.bottom > 0 /\ rect.right > 0 /\
                            rect.top < vp.height /\ rect.left < vp.width)),
            Obj2(Field("viewportWidthPercentage", Percentage(rect.width, vp.width)),
            Obj2(Field("viewportHeightPercentage", Percentage(rect.height, vp.height)),
            Obj2(Field("parentWidth",
                       IF hasParent THEN Px(Round(element.chain[1].width)) ELSE JsNull),
                 Field("parentHeight",
                       IF hasParent THEN Px(Round(element.chain[1].height)) ELSE JsNull)
            ))))))))))))))))))))]

calculateAdSlotSpace(v, element, vp) ==
    IF v = "sync" THEN calculateAdSlotSpaceSync(element, vp)
    ELSE calculateAdSlotSpaceDeferred(element, vp)

(***************************************************************************)
(* Configuration.  A flag is "undefined", "true", "false" or "nonbool" (a  *)
(* value of another type); moduleConfig is [hasParams, bidders, global,    *)
(* impLevel].                                                              *)
(***************************************************************************)
Undefined == [kind |-> "undefined", items |-> <<>>]

ParamBidders(cfg) == IF cfg.hasParams THEN cfg.bidders ELSE Undefined
ParamGlobal(cfg) == IF cfg.hasParams THEN cfg.global ELSE "undefined"
ParamImpLevel(cfg) == IF cfg.hasParams THEN cfg.impLevel ELSE "undefined"

\* a value used as a condition
Truthy(v) == v.kind # "undefined"

RSPath == <<"site", "ext", "data", MODULE_NAME>>
ImpPath == <<"ext", "data", MODULE_NAME>>
WmaxPath == <<"banner", "wmax">>

\* the stretchData object {code: record}
StretchTree(sd) ==
    [q \in UNION {{<<c>> \o f : f \in DOMAIN sd[c]} : c \in DOMAIN sd} |->
        sd[q[1]][Tail(q)]]

\* a payload whose records each carry the capture instant
SiteData_StampedRecords(v, sd, vp, now) ==
    Graft(RSPath,
        Obj2(Graft(<<"viewport">>,
                   Obj2(Field("width", Px(vp.width)), Field("height", Px(vp.height)))),
        Obj2(Graft(<<"adUnits">>,
                   Obj2(StretchTree(sd),
                        [q \in {<<c, "measuredAt">> : c \in DOMAIN sd} |-> Num(now)])),
             Field("timestamp", Num(now)))))

\* globalData / bidderData
SiteData(v, sd, vp, now) ==
    Graft(RSPath,
        Obj2(IF v = "deferred"
             THEN Graft(<<"viewport">>,
                        Obj2(Field("width", Px(vp.width)), Field("height", Px(vp.height))))
             ELSE EmptyObject,
        Obj2(Graft(<<"adUnits">>, StretchTree(sd)),
             Field("timestamp", Num(now)))))

\* a bidder configuration that keeps only one of the named bidders
BidderConfig_OneBidder(names, bidderData) ==
    LET first == CHOOSE b \in names : TRUE
    IN  [q \in {<<first>> \o r : r \in DOMAIN bidderData} |-> bidderData[Tail(q)]]

\* Object.fromEntries(bidders.map(bidder => [bidder, bidderData]))
BidderConfig(names, bidderData) ==
    [q \in {<<b>> \o r : b \in names, r \in DOMAIN bidderData} |-> bidderData[Tail(q)]]

\* impression data put under ext instead of ext.data
ImpData_UnderExt(v, stretchInfo) == Graft(<<"ext", MODULE_NAME>>, stretchInfo)

ImpData(v, stretchInfo) ==
    Obj2(Graft(ImpPath, stretchInfo),
         IF /\ v = "sync"
            /\ <<"maxAvailableWidth">> \in DOMAIN stretchInfo
            /\ stretchInfo[<<"maxAvailableWidth">>] # Px(0)
            /\ stretchInfo[<<"maxAvailableWidth">>] # JsInfinity
         THEN Leaf(WmaxPath, stretchInfo[<<"maxAvailableWidth">>])
         ELSE EmptyObject)
\* the forEach of the impression step over units i..Len(units); a null entry raises
RECURSIVE ImpStep(_, _, _, _)
ImpStep(v, units, sd, i) ==
    IF i > Len(units) THEN [units |-> units, threw |-> FALSE]
    ELSE IF units[i].isNull THEN [units |-> units, threw |-> TRUE]
    ELSE IF units[i].code \in DOMAIN sd
         THEN LET u == units[i]
                  ortb2Imp == IF u.hasImp THEN u.ortb2Imp ELSE EmptyObject
                  merged == [u EXCEPT !.hasImp = TRUE,
                                      !.ortb2Imp = mergeDeep(ortb2Imp,
                                                             ImpData(v, sd[u.code]))]
              IN  ImpStep(v, [units EXCEPT ![i] = merged], sd, i + 1)
         ELSE ImpStep(v, units, sd, i + 1)

\* const bidders = moduleConfig.params?.bidders || []
BiddersOf(cfg) ==
    IF Truthy(ParamBidders(cfg)) THEN ParamBidders(cfg)
    ELSE [kind |-> "array", items |-> <<>>]

\* a global flag that is off for a value that is not a boolean
globalEnabled_OffUnlessBoolean(cfg) == ParamGlobal(cfg) \in {"true", "undefined"}

\* const globalEnabled = moduleConfig.params?.global !== false
globalEnabled(cfg) == ParamGlobal(cfg) # "false"

\* a global merge that does not look at the bidders
GlobalStep_IgnoringBidders(cfg) == ParamGlobal(cfg) # "false"

\* globalEnabled && (isEmpty(bidders) || !isArray(bidders))
GlobalStep(cfg) ==
    globalEnabled(cfg) /\ (isEmpty(BiddersOf(cfg)) \/ ~isArray(BiddersOf(cfg)))

\* isArray(bidders) && bidders.length > 0
BidderStep(cfg) == isArray(BiddersOf(cfg)) /\ Len(BiddersOf(cfg).items) > 0

\* an impression step that does not look at the impLevel flag
ImpressionStep_IgnoringFlag(cfg, r) == r.hasAdUnits

\* impLevelEnabled && reqBidsConfigObj.adUnits
ImpressionStep(cfg, r) == ParamImpLevel(cfg) # "false" /\ r.hasAdUnits

addStretchDataToORTB2(v, r, sd, cfg, vp, now) ==
    LET bidders == BiddersOf(cfg)
        names == {bidders.items[i] : i \in 1..Len(bidders.items)}
        data == SiteData(v, sd, vp, now)
        r1 == IF GlobalStep(cfg) THEN [r EXCEPT !.global = mergeDeep(@, data)] ELSE r
        r2 == IF BidderStep(cfg)
              THEN [r1 EXCEPT !.bidder = mergeDeep(@, BidderConfig(names, data))]
              ELSE r1
        imp == ImpStep(v, r2.adUnits, sd, 1)
    IN  IF (GlobalStep(cfg) \/ BidderStep(cfg)) /\ ~r.hasFragments
        THEN [req |-> r, threw |-> TRUE]
        ELSE IF ImpressionStep(cfg, r)
             THEN [req |-> [r2 EXCEPT !.adUnits = imp.units], threw |-> imp.threw]
             ELSE [req |-> r2, threw |-> FALSE]

(***************************************************************************)
(* Element lookup and collection.  dom[code] is the sequence of what the   *)
(* six strategies yield for that code: "miss", "throw" or an element id.   *)
(***************************************************************************)
Body == [width |-> 2400, height |-> 1600, display |-> "block",
         position |-> "static", isBody |-> TRUE]

Ancestor(w, h, display, position) ==
    [width |-> w, height |-> h, display |-> display, position |-> position,
     isBody |-> FALSE]

ElementIds == {"e1", "e2", "e3", "e4"}

Elements ==
    [id \in ElementIds |->
        CASE id = "e1" ->
                [exists |-> TRUE, throws |-> FALSE,
                 rect |-> [left |-> 100, top |-> 200, width |-> 600, height |-> 500],
                 display |-> "block", position |-> "static",
                 chain |-> <<Ancestor(2400, 1600, "block", "static"), Body>>]
          [] id = "e2" ->
                [exists |-> TRUE, throws |-> FALSE,
                 rect |-> [left |-> 21, top |-> 31, width |-> 601, height |-> 101],
                 display |-> "block", position |-> "static",
                 chain |-> <<Ancestor(401, 300, "block", "absolute"),
                             Ancestor(1001, 900, "block", "static"), Body>>]
          [] id = "e3" ->
                [exists |-> TRUE, throws |-> TRUE,
                 rect |-> [left |-> 0, top |-> 0, width |-> 600, height |-> 500],
                 display |-> "block", position |-> "static",
                 chain |-> <<Body>>]
          [] id = "e4" ->
                [exists |-> TRUE, throws |-> FALSE,
                 rect |-> [left |-> 0, top |-> 4400, width |-> 0, height |-> 0],
                 display |-> "contents", position |-> "static",
                 chain |-> <<>>]]

StrategyCount == 6

\* the for loop of findAdSlotElement from strategy i on
RECURSIVE TryFrom(_, _)
TryFrom(outcomes, i) ==
    IF i > StrategyCount THEN NoElement
    ELSE IF outcomes[i] \in ElementIds THEN Elements[outcomes[i]]
    ELSE TryFrom(outcomes, i + 1)

findAdSlotElement(d, adUnitCode) == TryFrom(d[adUnitCode], 1)

\* the forEach of collectResponsiveStretchData from unit i on
RECURSIVE CollectFrom(_, _, _, _, _, _)
CollectFrom(v, adUnits, d, vp, i, sd) ==
    IF i > Len(adUnits) THEN [threw |-> FALSE, data |-> sd]
    ELSE IF adUnits[i].isNull THEN [threw |-> TRUE, data |-> sd]
    ELSE IF adUnits[i].code = "" THEN CollectFrom(v, adUnits, d, vp, i + 1, sd)
    ELSE LET code == adUnits[i].code
             element == findAdSlotElement(d, code)
             spaceData == calculateAdSlotSpace(v, element, vp)
         IN  IF spaceData.ok
             THEN CollectFrom(v, adUnits, d, vp, i + 1,
                    [c \in DOMAIN sd \cup {code} |->
                        IF c = code THEN spaceData.data ELSE sd[c]])
             ELSE CollectFrom(v, adUnits, d, vp, i + 1, sd)

NoData == [c \in {} |-> EmptyObject]

\* a collection that gives up at the first slot it cannot measure
RECURSIVE CollectUntilFailure(_, _, _, _, _, _)
CollectUntilFailure(v, adUnits, d, vp, i, sd) ==
    IF i > Len(adUnits) THEN [threw |-> FALSE, data |-> sd]
    ELSE IF adUnits[i].isNull THEN [threw |-> TRUE, data |-> sd]
    ELSE IF adUnits[i].code = "" THEN CollectUntilFailure(v, adUnits, d, vp, i + 1, sd)
    ELSE LET code == adUnits[i].code
             spaceData == calculateAdSlotSpace(v, findAdSlotElement(d, code), vp)
         IN  IF spaceData.ok
             THEN CollectUntilFailure(v, adUnits, d, vp, i + 1,
                    [c \in DOMAIN sd \cup {code} |->
                        IF c = code THEN spaceData.data ELSE sd[c]])
             ELSE [threw |-> FALSE, data |-> sd]

collectResponsiveStretchData_StopsAtFailure(v, adUnits, d, vp) ==
    CollectUntilFailure(v, adUnits, d, vp, 1, NoData)

collectResponsiveStretchData(v, adUnits, d, vp) ==
    CollectFrom(v, adUnits, d, vp, 1, NoData)
(***************************************************************************)
(* Inputs.                                                                 *)
(***************************************************************************)
Unit(code, hasImp, imp) ==
    [isNull |-> FALSE, code |-> code, hasImp |-> hasImp, ortb2Imp |-> imp]

NullUnit == [isNull |-> TRUE, code |-> "", hasImp |-> FALSE, ortb2Imp |-> EmptyObject]

\* an ortb2Imp a publisher filled in
ForeignImp ==
    Obj2(Leaf(<<"banner", "wmax">>, Px(640)),
    Obj2(Leaf(<<"banner", "pos">>, Num(1)),
    Obj2(Leaf(<<"ext", "gpid">>, Num(7)),
         Leaf(<<"ext", "data", "pbadslot">>, Num(9)))))

\* ortb2Fragments.global / .bidder with first-party data in them
ForeignGlobal ==
    Obj2(Leaf(<<"site", "page">>, Num(3)),
    Obj2(Leaf(<<"site", "ext", "data", "section">>, Num(4)),
         Leaf(<<"user", "ext", "consent">>, Num(5))))

ForeignBidder ==
    Obj2(Leaf(<<"bidderA", "site", "ext", "data", "segment">>, Num(6)),
         Leaf(<<"bidderC", "site", "page">>, Num(3)))

Lists(S, n) == UNION {[1..k -> S] : k \in 0..n}

Flags == {"true", "false"}

BidderValues ==
    {[kind |-> "array", items |-> <<>>],
     [kind |-> "array", items |-> <<"bidderA">>],
     [kind |-> "array", items |-> <<"bidderA", "bidderB">>],
     [kind |-> "string", items |-> <<>>]}

NoParams == [hasParams |-> FALSE, bidders |-> Undefined,
             global |-> "undefined", impLevel |-> "undefined"]

Configs ==
    {NoParams} \cup
    [hasParams : {TRUE}, bidders : BidderValues, global : Flags, impLevel : Flags]

Viewports == {[width |-> 2560, height |-> 1440]}

Request(hasAdUnits, adUnits, hasFragments, global, bidder) ==
    [defined |-> TRUE, hasAdUnits |-> hasAdUnits, adUnits |-> adUnits,
     hasFragments |-> hasFragments, global |-> global, bidder |-> bidder]

NoRequest ==
    [defined |-> FALSE, hasAdUnits |-> FALSE, adUnits |-> <<>>,
     hasFragments |-> FALSE, global |-> EmptyObject, bidder |-> EmptyObject]

AllMiss == [i \in 1..StrategyCount |-> "miss"]

\* calculateAdSlotSpace has not been called
NotMeasured == [called |-> FALSE, ok |-> FALSE, data |-> EmptyObject]

\* getMaxAvailableWidth at its first statements: maxWidth = Infinity, current = el
WalkStart == [i |-> 1, maxWidth |-> JsInfinity, visited |-> <<>>, trail |-> <<>>,
              returned |-> FALSE]

\* init has not been called: let _moduleConfig = {}
NotInitialised == [called |-> FALSE, returned |-> FALSE, warnings |-> {}]

\* no call of the module has happened
CycleIdle ==
    /\ pc = "idle"
    /\ cbCount = 0
    /\ escaped = FALSE
    /\ collectCount = 0
    /\ collectThrew = FALSE
    /\ mergeCount = 0
    /\ mergeThrew = FALSE
    /\ clock = 1
    /\ pre = req
    /\ events = <<>>

InitIdle ==
    /\ savedConfig = NoParams
    /\ initResult = NotInitialised

SpaceIdle ==
    /\ slotElement = NoElement
    /\ availableSpace = NotMeasured
    /\ walk = WalkStart

\* findAdSlotElement has not been called, no layout read has been made
NotSearched == [code |-> "", i |-> 1, tried |-> <<>>, result |-> "none",
                returned |-> FALSE, raised |-> FALSE]

LookupIdle ==
    /\ search = NotSearched
    /\ layout = 1
    /\ reads = <<>>

Idle == CycleIdle /\ InitIdle /\ SpaceIdle /\ LookupIdle

\* no bid request is being handled
NoCycle ==
    /\ req = NoRequest
    /\ pbjsAdUnits = <<>>
    /\ dom = [c \in Codes |-> AllMiss]
    /\ callbackThrows = FALSE
    /\ stretchData = NoData
    /\ CycleIdle

(***************************************************************************)
(* The merge step on its own: addStretchDataToORTB2 applied to a request,  *)
(* a measurement map and a configuration, and applied again with the same  *)
(* map and configuration.                                                  *)
(***************************************************************************)
MergeUnits ==
    {Unit("ad-1", FALSE, EmptyObject), Unit("ad-1", TRUE, ForeignImp),
     Unit("ad-2", TRUE, EmptyObject)}

\* measurement maps: what the revision measures for these elements
Measured(v, id) == calculateAdSlotSpace(v, Elements[id], CHOOSE vp \in Viewports : TRUE).data

MergeMaps(v) ==
    {NoData,
     [c \in {"ad-1"} |-> Measured(v, "e1")],
     [c \in {"ad-2"} |-> Measured(v, "e4")],
     [c \in {"ad-1", "ad-2"} |-> IF c = "ad-1" THEN Measured(v, "e2")
                                 ELSE Measured(v, "e1")]}

InitMerge ==
    /\ variant \in Variants
    /\ moduleConfig \in Configs
    /\ \E hasAdUnits \in BOOLEAN, foreign \in BOOLEAN :
        \E adUnits \in IF hasAdUnits THEN Lists(MergeUnits, MaxUnits) ELSE {<<>>} :
            req = Request(hasAdUnits, adUnits, TRUE,
                          IF foreign THEN ForeignGlobal ELSE EmptyObject,
                          IF foreign THEN ForeignBidder ELSE EmptyObject)
    /\ pbjsAdUnits = <<>>
    /\ dom = [c \in Codes |-> AllMiss]
    /\ viewport \in Viewports
    /\ callbackThrows = FALSE
    /\ stretchData \in MergeMaps(variant)
    /\ Idle

\* a direct call of internal.addStretchDataToORTB2; each call reads a later
\* Date.now()
Merge ==
    /\ pc = "idle"
    /\ mergeCount < MaxMerges
    /\ LET out == addStretchDataToORTB2(variant, req, stretchData, moduleConfig,
                                        viewport, clock)
       IN  /\ req' = out.req
           /\ mergeThrew' = out.threw
    /\ pre' = req
    /\ mergeCount' = mergeCount + 1
    /\ clock' = clock + 1
    /\ UNCHANGED events
    /\ UNCHANGED <<variant, moduleConfig, pbjsAdUnits, dom, viewport, callbackThrows,
                   pc, cbCount, escaped, stretchData, collectCount, collectThrew>>
    /\ UNCHANGED <<savedConfig, initResult, slotElement, availableSpace, walk>>
    /\ UNCHANGED <<search, layout, reads>>

NextMerge == Merge

SpecMerge == InitMerge /\ [][NextMerge]_vars

(***************************************************************************)
(* Configuration of any type: init(moduleConfig) and direct merge calls    *)
(* with a configuration whose fields may have the wrong type.              *)
(***************************************************************************)
AnyFlags == {"undefined", "true", "false", "nonbool"}

AnyConfigs ==
    {NoParams} \cup
    [hasParams : {TRUE}, bidders : BidderValues \cup {Undefined},
     global : AnyFlags, impLevel : AnyFlags]

\* init(moduleConfig): what it stores, what it warns about, what it returns
init(cfg) ==
    [saved |-> cfg,
     warnings |->
        IF cfg.hasParams
        THEN {w \in {"bidders"} : Truthy(cfg.bidders) /\ ~isArray(cfg.bidders)} \cup
             {w \in {"global"} : cfg.global \notin {"undefined", "true", "false"}} \cup
             {w \in {"impLevel"} : cfg.impLevel \notin {"undefined", "true", "false"}}
        ELSE {},
     returned |-> TRUE]

InitConfig ==
    /\ variant \in Variants
    /\ moduleConfig \in AnyConfigs
    /\ \E adUnits \in {<<>>, <<Unit("ad-1", FALSE, EmptyObject),
                                Unit("ad-2", TRUE, ForeignImp)>>} :
            req = Request(TRUE, adUnits, TRUE, ForeignGlobal, ForeignBidder)
    /\ pbjsAdUnits = <<>>
    /\ dom = [c \in Codes |-> AllMiss]
    /\ viewport \in Viewports
    /\ callbackThrows = FALSE
    /\ stretchData \in MergeMaps(variant) \ {NoData}
    /\ Idle

\* the RTD core registers the submodule: init(moduleConfig, userConsent)
InitModule ==
    /\ ~initResult.called
    /\ LET out == init(moduleConfig)
       IN  /\ savedConfig' = out.saved
           /\ initResult' = [called |-> TRUE, returned |-> out.returned,
                             warnings |-> out.warnings]
    /\ UNCHANGED <<cycleVars, slotElement, availableSpace, walk>>
    /\ UNCHANGED <<search, layout, reads>>

NextConfig == InitModule \/ Merge

SpecConfig == InitConfig /\ [][NextConfig]_vars

(***************************************************************************)
(* The cycle: getBidRequestData(reqBidsConfigObj, callback, moduleConfig). *)
(***************************************************************************)
CycleUnits ==
    {Unit("ad-1", FALSE, EmptyObject), Unit("ad-2", TRUE, ForeignImp),
     Unit("", FALSE, EmptyObject), NullUnit}

CycleConfigs ==
    {NoParams,
     [hasParams |-> TRUE, bidders |-> [kind |-> "array", items |-> <<"bidderA">>],
      global |-> "true", impLevel |-> "true"],
     [hasParams |-> TRUE, bidders |-> [kind |-> "array", items |-> <<>>],
      global |-> "false", impLevel |-> "false"],
     [hasParams |-> TRUE, bidders |-> [kind |-> "string", items |-> <<>>],
      global |-> "true", impLevel |-> "false"]}

LookupOutcomes ==
    {AllMiss,
     <<"e1", "miss", "miss", "miss", "miss", "miss">>,
     <<"miss", "throw", "e2", "miss", "miss", "e1">>,
     <<"throw", "throw", "throw", "throw", "throw", "e3">>,
     <<"miss", "miss", "miss", "miss", "miss", "e4">>}

Init ==
    /\ variant \in Variants
    /\ moduleConfig \in CycleConfigs
    /\ \/ /\ req = NoRequest
          /\ pbjsAdUnits = <<>>
       \/ /\ \E adUnits \in Lists(CycleUnits, MaxUnits), hasFragments \in BOOLEAN :
                req = Request(TRUE, adUnits, hasFragments,
                              IF hasFragments THEN ForeignGlobal ELSE EmptyObject,
                              IF hasFragments THEN ForeignBidder ELSE EmptyObject)
          /\ pbjsAdUnits = <<>>
       \/ /\ req = Request(FALSE, <<>>, TRUE, EmptyObject, EmptyObject)
          /\ pbjsAdUnits \in {<<>>, <<Unit("ad-1", FALSE, EmptyObject)>>}
    /\ dom \in [Codes -> LookupOutcomes]
    /\ viewport \in Viewports
    /\ callbackThrows \in BOOLEAN
    /\ stretchData = NoData
    /\ Idle

\* const adUnits = reqBidsConfigObj.adUnits || getGlobal().adUnits || []
AdUnitsOf(r, pageUnits) == IF r.hasAdUnits THEN r.adUnits ELSE pageUnits

\* a merge guard that lets an empty map through
HasStretchData_Always(sd) == TRUE

\* if (!isEmpty(stretchData))
HasStretchData(sd) == DOMAIN sd # {}

\* the statements of the inner try block: collect, then merge when something
\* was collected; raised says that one of them raised
TryBlock(v, r, adUnits, cfg, d, vp, now) ==
    LET collected == collectResponsiveStretchData(v, adUnits, d, vp)
        out == addStretchDataToORTB2(v, r, collected.data, cfg, vp, now)
        merges == ~collected.threw /\ HasStretchData(collected.data)
    IN  [req |-> IF merges THEN out.req ELSE r,
         stretchData |-> IF collected.threw THEN NoData ELSE collected.data,
         collectThrew |-> collected.threw,
         merged |-> merges,
         mergeThrew |-> merges /\ out.threw,
         raised |-> collected.threw \/ (merges /\ out.threw)]

\* the inner try without its catch
Process_Uncaught(v, r, adUnits, cfg, d, vp, now) ==
    TryBlock(v, r, adUnits, cfg, d, vp, now)

\* try { ... } catch (error) { logError(...) }: nothing is raised further
Process(v, r, adUnits, cfg, d, vp, now) ==
    [TryBlock(v, r, adUnits, cfg, d, vp, now) EXCEPT !.raised = FALSE]

\* the effect of Process on the variables
Processed(out) ==
    /\ req' = out.req
    /\ pre' = req
    /\ stretchData' = out.stretchData
    /\ collectCount' = collectCount + 1
    /\ collectThrew' = out.collectThrew
    /\ mergeCount' = IF out.merged THEN mergeCount + 1 ELSE mergeCount
    /\ mergeThrew' = out.mergeThrew
    /\ clock' = clock + 1

NotProcessed ==
    UNCHANGED <<req, pre, stretchData, collectCount, collectThrew, mergeCount,
                mergeThrew, clock>>

\* what Process did, in order
ProcessEvents(out) == <<"collect">> \o (IF out.merged THEN <<"merge">> ELSE <<>>)

\* what the callback invocations of a step add
CallbackEvents(n) == [k \in 1..n |-> "callback"]

\* a cycle that calls back before it processes
Sequenced_CallbackFirst(processed, called) == called \o processed

\* the try block runs to its end, then callback()
Sequenced(processed, called) == processed \o called

\* callback() inside the outer try: when it raises, the catch calls it again
\* and that second failure leaves the function
CallbackInTry ==
    /\ cbCount' = IF callbackThrows THEN cbCount + 2 ELSE cbCount + 1
    /\ escaped' = callbackThrows

\* callback() with no handler around it (the catch block, the timer body)
CallbackBare ==
    /\ cbCount' = cbCount + 1
    /\ escaped' = callbackThrows

getBidRequestData ==
    /\ pc = "idle"
    /\ IF ~req.defined
       THEN \* reading reqBidsConfigObj.adUnits raises; the catch calls back
            /\ CallbackBare
            /\ NotProcessed
            /\ events' = events \o CallbackEvents(1)
            /\ pc' = "done"
       ELSE IF Len(AdUnitsOf(req, pbjsAdUnits)) = 0
       THEN /\ CallbackInTry
            /\ NotProcessed
            /\ events' = events \o CallbackEvents(IF callbackThrows THEN 2 ELSE 1)
            /\ pc' = "done"
       ELSE IF variant = "sync"
       THEN LET out == Process(variant, req, AdUnitsOf(req, pbjsAdUnits),
                               moduleConfig, dom, viewport, clock)
            IN  /\ Processed(out)
                /\ IF out.raised THEN CallbackBare ELSE CallbackInTry
                /\ events' = events \o
                        Sequenced(ProcessEvents(out),
                                  CallbackEvents(IF ~out.raised /\ callbackThrows
                                                 THEN 2 ELSE 1))
                /\ pc' = "done"
       ELSE \* setTimeout(..., 0)
            /\ NotProcessed
            /\ UNCHANGED <<cbCount, escaped, events>>
            /\ pc' = "timer"
    /\ UNCHANGED <<variant, moduleConfig, pbjsAdUnits, dom, viewport, callbackThrows>>
    /\ UNCHANGED <<savedConfig, initResult, slotElement, availableSpace, walk>>
    /\ UNCHANGED <<search, layout, reads>>

\* the function handed to setTimeout in the deferred revision
Timer ==
    /\ pc = "timer"
    /\ LET out == Process(variant, req, AdUnitsOf(req, pbjsAdUnits),
                          moduleConfig, dom, viewport, clock)
       IN  /\ Processed(out)
           /\ IF out.raised
              THEN UNCHANGED cbCount /\ escaped' = TRUE
              ELSE CallbackBare
           /\ events' = events \o
                   Sequenced(ProcessEvents(out),
                             CallbackEvents(IF out.raised THEN 0 ELSE 1))
    /\ pc' = "done"
    /\ UNCHANGED <<variant, moduleConfig, pbjsAdUnits, dom, viewport, callbackThrows>>
    /\ UNCHANGED <<savedConfig, initResult, slotElement, availableSpace, walk>>
    /\ UNCHANGED <<search, layout, reads>>

Next == getBidRequestData \/ Timer

Spec == Init /\ [][Next]_vars

(***************************************************************************)
(* calculateAdSlotSpace on its own: one call on an element in a viewport.  *)
(* Lengths are in half pixels; a viewport size is a whole number of pixels *)
(* (window.innerWidth), a box may lie on half pixels.                      *)
(***************************************************************************)
SpaceLefts == {-4, 0, 100}
SpaceTops == {0, 200}
SpaceWidths == {0, 3, 600}
SpaceHeights == {0, 500}
SpaceParents == {<<>>, <<Ancestor(2400, 1600, "block", "static"), Body>>}

SpaceElements ==
    {NoElement, Elements["e3"]} \cup
    {[exists |-> TRUE, throws |-> FALSE,
      rect |-> [left |-> l, top |-> t, width |-> w, height |-> h],
      display |-> "block", position |-> "static", chain |-> c] :
        l \in SpaceLefts, t \in SpaceTops, w \in SpaceWidths, h \in SpaceHeights,
        c \in SpaceParents}

SpaceViewports == {[width |-> w, height |-> h] : w \in {0, 400, 3840}, h \in {0, 2160}}

InitSpace ==
    /\ variant \in Variants
    /\ slotElement \in SpaceElements
    /\ viewport \in SpaceViewports
    /\ availableSpace = NotMeasured
    /\ walk = WalkStart
    /\ moduleConfig = NoParams
    /\ InitIdle
    /\ LookupIdle
    /\ NoCycle

\* calculateAdSlotSpace(element)
Measure ==
    /\ ~availableSpace.called
    /\ LET result == calculateAdSlotSpace(variant, slotElement, viewport)
       IN  availableSpace' = [called |-> TRUE, ok |-> result.ok, data |-> result.data]
    /\ UNCHANGED <<cycleVars, savedConfig, initResult, slotElement, walk>>
    /\ UNCHANGED <<search, layout, reads>>

NextSpace == Measure

SpecSpace == InitSpace /\ [][NextSpace]_vars

(***************************************************************************)
(* getMaxAvailableWidth step by step: one action per loop iteration, one   *)
(* for the return into calculateAdSlotSpace (synchronous revision).        *)
(***************************************************************************)
MaxDepth == 2

WalkWidths == {3, 8}

WalkAncestors ==
    {Ancestor(w, 1600, d, p) :
        w \in WalkWidths, d \in {"block", "contents"}, p \in {"static", "absolute"}}

WalkElements ==
    {[exists |-> TRUE, throws |-> FALSE,
      rect |-> [left |-> 0, top |-> 0, width |-> w, height |-> 500],
      display |-> d, position |-> p, chain |-> c \o top] :
        w \in WalkWidths, d \in {"block", "contents"}, p \in {"static", "absolute"},
        c \in Lists(WalkAncestors, MaxDepth), top \in {<<>>, <<Body>>}}

InitWalk ==
    /\ variant = "sync"
    /\ slotElement \in WalkElements
    /\ viewport \in Viewports
    /\ availableSpace = NotMeasured
    /\ walk = WalkStart
    /\ moduleConfig = NoParams
    /\ InitIdle
    /\ LookupIdle
    /\ NoCycle

\* one iteration of the while loop
WalkIterate ==
    /\ ~walk.returned
    /\ LoopCondition(PathOf(slotElement), walk.i)
    /\ LET current == PathOf(slotElement)[walk.i]
           maxWidth == IF Constrains(current) THEN MinW(walk.maxWidth, current.width)
                       ELSE walk.maxWidth
       IN  walk' = [walk EXCEPT !.i = walk.i + 1,
                                !.maxWidth = maxWidth,
                                !.visited = Append(walk.visited, walk.i),
                                !.trail = Append(walk.trail, maxWidth)]
    /\ UNCHANGED <<cycleVars, savedConfig, initResult, slotElement, availableSpace>>
    /\ UNCHANGED <<search, layout, reads>>

\* return maxWidth; calculateAdSlotSpace rounds it into the record
WalkReturn ==
    /\ ~walk.returned
    /\ ~LoopCondition(PathOf(slotElement), walk.i)
    /\ walk' = [walk EXCEPT !.returned = TRUE]
    /\ LET result == calculateAdSlotSpace(variant, slotElement, viewport)
       IN  availableSpace' =
                [called |-> TRUE, ok |-> result.ok,
                 data |-> Obj2(Field("maxAvailableWidth", RoundLeaf(walk.maxWidth)),
                               result.data)]
    /\ UNCHANGED <<cycleVars, savedConfig, initResult, slotElement>>
    /\ UNCHANGED <<search, layout, reads>>

NextWalk == WalkIterate \/ WalkReturn

SpecWalk == InitWalk /\ [][NextWalk]_vars

\* the loop runs to completion within the call
SpecWalkLive == SpecWalk /\ WF_vars(NextWalk)

(***************************************************************************)
(* findAdSlotElement step by step: one action per strategy tried, one for  *)
(* the return of null.                                                     *)
(***************************************************************************)
\* the strategies array, in its order
strategies ==
    <<"getElementById", "idAttribute", "dataAdUnitCode", "dataAdunitcode",
      "idSubstring", "classSubstring">>

\* a strategy whose failure is not caught
Attempt_Uncaught(d, adUnitCode, i) ==
    [element |-> IF d[adUnitCode][i] \in ElementIds THEN d[adUnitCode][i] ELSE "none",
     raised |-> d[adUnitCode][i] = "throw"]

\* try { const element = strategy(); ... } catch (error) { }
Attempt(d, adUnitCode, i) ==
    [element |-> IF d[adUnitCode][i] \in ElementIds THEN d[adUnitCode][i] ELSE "none",
     raised |-> FALSE]

StrategyOutcomes == {"miss", "throw", "e1", "e2"}

InitLookup ==
    /\ variant \in Variants
    /\ \E code \in Codes, o \in [1..StrategyCount -> StrategyOutcomes] :
            /\ dom = [c \in Codes |-> IF c = code THEN o ELSE AllMiss]
            /\ search = [NotSearched EXCEPT !.code = code]
    /\ layout = 1
    /\ reads = <<>>
    /\ moduleConfig = NoParams
    /\ viewport \in Viewports
    /\ req = NoRequest
    /\ pbjsAdUnits = <<>>
    /\ callbackThrows = FALSE
    /\ stretchData = NoData
    /\ CycleIdle
    /\ InitIdle
    /\ SpaceIdle

\* one iteration of the for loop
TryStrategy ==
    /\ ~search.returned
    /\ search.i <= StrategyCount
    /\ LET out == Attempt(dom, search.code, search.i)
       IN  search' = [search EXCEPT
                        !.tried = Append(search.tried, strategies[search.i]),
                        !.i = search.i + 1,
                        !.result = out.element,
                        !.returned = out.element # "none" \/ out.raised,
                        !.raised = out.raised]
    /\ UNCHANGED <<cycleVars, savedConfig, initResult, slotElement, availableSpace,
                   walk, layout, reads>>

\* logWarn(...); return null
ReturnNull ==
    /\ ~search.returned
    /\ search.i > StrategyCount
    /\ search' = [search EXCEPT !.result = "null", !.returned = TRUE]
    /\ UNCHANGED <<cycleVars, savedConfig, initResult, slotElement, availableSpace,
                   walk, layout, reads>>

NextLookup == TryStrategy \/ ReturnNull

SpecLookup == InitLookup /\ [][NextLookup]_vars

(***************************************************************************)
(* The layout reads of one calculateAdSlotSpace call, in order.  A read is *)
(* [what, node, layout]: what was read ("box", "viewport", "style"), of    *)
(* which node of the element's path (1 the element, 2 its parent, ...; 0   *)
(* for the viewport), and the layout the host had at that moment.  The     *)
(* host may reflow between two reads.                                      *)
(***************************************************************************)
MaxLayouts == 2

\* libraries/boundingClientRect, libraries/viewport, window.getComputedStyle:
\* each call asks the host for the layout as it is now
getBoundingClientRect(node, now) == [what |-> "box", node |-> node, layout |-> now]
getViewportSize(now) == [what |-> "viewport", node |-> 0, layout |-> now]
getComputedStyle(node, now) == [what |-> "style", node |-> node, layout |-> now]

\* the reads of the loop of getMaxAvailableWidth from node i on
RECURSIVE WalkReads(_, _)
WalkReads(nodes, i) ==
    IF ~LoopCondition(nodes, i) THEN <<>>
    ELSE <<[what |-> "style", node |-> i], [what |-> "box", node |-> i]>> \o
         WalkReads(nodes, i + 1)

\* what a call reads, in the order of its statements
ReadPlan(v, el) ==
    <<[what |-> "box", node |-> 1], [what |-> "viewport", node |-> 0]>> \o
    (IF v = "sync" THEN WalkReads(PathOf(el), 1)
     ELSE IF Len(el.chain) > 0
          THEN <<[what |-> "box", node |-> 2], [what |-> "box", node |-> 2]>>
          ELSE <<>>)

ReadElements ==
    {[exists |-> TRUE, throws |-> FALSE,
      rect |-> [left |-> 100, top |-> 200, width |-> 600, height |-> 500],
      display |-> "block", position |-> "static", chain |-> c \o top] :
        c \in Lists({Ancestor(2400, 1600, "block", "static")}, MaxDepth),
        top \in {<<>>, <<Body>>}}

InitReads ==
    /\ variant \in Variants
    /\ slotElement \in ReadElements
    /\ viewport \in Viewports
    /\ layout = 1
    /\ reads = <<>>
    /\ search = NotSearched
    /\ availableSpace = NotMeasured
    /\ walk = WalkStart
    /\ moduleConfig = NoParams
    /\ InitIdle
    /\ NoCycle

\* the next read statement of the call
ReadLayout ==
    /\ Len(reads) < Len(ReadPlan(variant, slotElement))
    /\ LET next == ReadPlan(variant, slotElement)[Len(reads) + 1]
       IN  reads' = Append(reads,
                CASE next.what = "box" -> getBoundingClientRect(next.node, layout)
                  [] next.what = "viewport" -> getViewportSize(layout)
                  [] OTHER -> getComputedStyle(next.node, layout))
    /\ UNCHANGED <<cycleVars, savedConfig, initResult, slotElement, availableSpace,
                   walk, search, layout>>

\* the host lays the page out anew (a scroll, a resize) during the call
Reflow ==
    /\ layout < MaxLayouts
    /\ Len(reads) < Len(ReadPlan(variant, slotElement))
    /\ layout' = layout + 1
    /\ UNCHANGED <<cycleVars, savedConfig, initResult, slotElement, availableSpace,
                   walk, search, reads>>

NextReads == ReadLayout \/ Reflow

SpecReads == InitReads /\ [][NextReads]_vars

(***************************************************************************)
(* Properties of the merge step (checked under SpecMerge).                 *)
(***************************************************************************)
\* the configuration as the documentation reads it: a flag is on unless it is
\* false, the target-bidder set is the bidders array (empty when there is none)
FlagOn(f) == f \in {"true", "undefined", "nonbool"}
GlobalFlag == FlagOn(IF moduleConfig.hasParams THEN moduleConfig.global ELSE "undefined")
ImpressionFlag ==
    FlagOn(IF moduleConfig.hasParams THEN moduleConfig.impLevel ELSE "undefined")
TargetBidders ==
    IF moduleConfig.hasParams /\ moduleConfig.bidders.kind = "array"
    THEN {moduleConfig.bidders.items[i] : i \in 1..Len(moduleConfig.bidders.items)}
    ELSE {}

Merged == mergeCount >= 1 /\ ~mergeThrew
MeasurementMap == StretchTree(stretchData)

\* C3: the global scope is modified if and only if the global flag is enabled
\* and the target-bidder set is empty; with a non-empty target-bidder set the
\* global scope is left as it was, whatever the global flag.
C3_GlobalScopeIffFlagAndNoBidders ==
    Merged =>
        /\ ~(GlobalFlag /\ TargetBidders = {}) => req.global = pre.global
        /\ (GlobalFlag /\ TargetBidders = {}) =>
                /\ Has(req.global, RSPath)
                /\ Sub(req.global, RSPath \o <<"adUnits">>) = MeasurementMap
                /\ mergeCount = 1 => req.global # pre.global

C3_Witness ==
    /\ Merged
    /\ mergeCount = 1
    /\ TargetBidders = {"bidderA"}
    /\ moduleConfig.global = "true"
    /\ DOMAIN stretchData # {}
    /\ pre.global = ForeignGlobal
    /\ req.global = ForeignGlobal
    /\ req.bidder # pre.bidder

\* C4: with a non-empty target-bidder set every named bidder's scope holds
\* site.ext.data.responsiveStretch with adUnits equal to the full measurement
\* map, and no scope appears for a bidder that was not named, whatever the
\* global and impression flags.
C4_EveryNamedBidderGetsTheMap ==
    (Merged /\ TargetBidders # {}) =>
        /\ \A b \in TargetBidders :
                /\ Has(req.bidder, <<b>> \o RSPath)
                /\ Sub(req.bidder, <<b>> \o RSPath \o <<"adUnits">>) = MeasurementMap
        /\ Keys(req.bidder, <<>>) = Keys(pre.bidder, <<>>) \cup TargetBidders

C4_Witness ==
    /\ Merged
    /\ mergeCount = 1
    /\ TargetBidders = {"bidderA", "bidderB"}
    /\ moduleConfig.global = "false"
    /\ moduleConfig.impLevel = "false"
    /\ DOMAIN stretchData = {"ad-1", "ad-2"}
    /\ pre.bidder = ForeignBidder
    /\ Keys(req.bidder, <<>>) = {"bidderA", "bidderB", "bidderC"}
    /\ Sub(req.bidder, <<"bidderB">> \o RSPath \o <<"adUnits">>) = MeasurementMap

\* C5 as stated: the two merges are additive, so a call with the global flag on
\* and bidders named writes the payload into the global scope and into the
\* named bidders' scopes.
C5_Original_BothScopesWritten ==
    (Merged /\ mergeCount = 1 /\ GlobalFlag /\ TargetBidders # {}) =>
        /\ Has(req.global, RSPath)
        /\ \A b \in TargetBidders : Has(req.bidder, <<b>> \o RSPath)

\* C5 amended: the two merges exclude each other: no call changes both the
\* global scope and the bidder scopes.
C5_GlobalAndBidderMergeExclusive ==
    Merged =>
        /\ ~(req.global # pre.global /\ req.bidder # pre.bidder)
        /\ TargetBidders # {} => ~Has(req.global, RSPath)
        /\ TargetBidders = {} => req.bidder = pre.bidder

C5_Witness ==
    /\ Merged
    /\ mergeCount = 1
    /\ moduleConfig.global = "true"
    /\ TargetBidders = {"bidderA", "bidderB"}
    /\ Has(req.bidder, <<"bidderB">> \o RSPath)
    /\ ~Has(req.global, RSPath)
\* the ad unit at position i holds its slot's record verbatim at
\* ortb2Imp.ext.data.responsiveStretch
HoldsRecord(r, i) ==
    /\ r.adUnits[i].hasImp
    /\ Has(r.adUnits[i].ortb2Imp, ImpPath)
    /\ r.adUnits[i].code \in DOMAIN stretchData
    /\ Sub(r.adUnits[i].ortb2Imp, ImpPath) = stretchData[r.adUnits[i].code]

\* C6: after the merge an ad unit's ortb2Imp.ext.data.responsiveStretch holds
\* the slot's record verbatim if and only if the impression flag is enabled and
\* the map has a record for the slot's code; the other ad units, and all of them
\* when the flag is false, keep their ortb2Imp unchanged.
C6_ImpressionRecordIffFlagAndMeasured ==
    Merged =>
        /\ Len(req.adUnits) = Len(pre.adUnits)
        /\ \A i \in 1..Len(req.adUnits) :
            LET measured == ImpressionFlag /\ req.adUnits[i].code \in DOMAIN stretchData
            IN  /\ HoldsRecord(req, i) <=> measured
                /\ ~measured => req.adUnits[i] = pre.adUnits[i]

C6_Witness ==
    /\ Merged
    /\ mergeCount = 1
    /\ ImpressionFlag
    /\ DOMAIN stretchData = {"ad-1"}
    /\ Len(req.adUnits) = 2
    /\ req.adUnits[1].code = "ad-2"
    /\ req.adUnits[2].code = "ad-1"
    /\ ~pre.adUnits[2].hasImp
    /\ HoldsRecord(req, 2)
    /\ req.adUnits[1] = pre.adUnits[1]

\* C7: the payload at site.ext.data.responsiveStretch of the global scope and of
\* each bidder scope has exactly the keys viewport ({width, height}), adUnits and
\* timestamp (an integer).
PayloadShape(t, p) ==
    Has(t, p) =>
        /\ Keys(t, p) = {"viewport", "adUnits", "timestamp"}
        /\ Keys(t, p \o <<"viewport">>) = {"width", "height"}
        /\ p \o <<"timestamp">> \in DOMAIN t
        /\ t[p \o <<"timestamp">>][1] = "n"

C7_PayloadHasViewportAdUnitsTimestamp ==
    Merged =>
        /\ PayloadShape(req.global, RSPath)
        /\ \A b \in BidderNames : PayloadShape(req.bidder, <<b>> \o RSPath)

\* C8 as stated: only the three responsiveStretch paths are written; every
\* other key of the fragments and of each ortb2Imp is as before the call.
SameOutside(t, u, p) == Without(t, p) = Without(u, p)

BidderFrame ==
    LET outside(t) == [q \in {r \in DOMAIN t :
                                ~\E b \in BidderNames : IsPrefix(<<b>> \o RSPath, r)} |-> t[q]]
    IN  outside(req.bidder) = outside(pre.bidder)

C8_Original_OnlyThreePathsWritten ==
    Merged =>
        /\ SameOutside(req.global, pre.global, RSPath)
        /\ BidderFrame
        /\ Len(req.adUnits) = Len(pre.adUnits)
        /\ \A i \in 1..Len(req.adUnits) :
            /\ req.adUnits[i].code = pre.adUnits[i].code
            /\ SameOutside(req.adUnits[i].ortb2Imp, pre.adUnits[i].ortb2Imp, ImpPath)

\* C8 amended: only the three responsiveStretch paths and, for a measured ad
\* unit, ortb2Imp.banner.wmax are written; every other key is as before the call.
C8_OnlyStretchPathsAndWmaxWritten ==
    Merged =>
        /\ SameOutside(req.global, pre.global, RSPath)
        /\ BidderFrame
        /\ Len(req.adUnits) = Len(pre.adUnits)
        /\ \A i \in 1..Len(req.adUnits) :
            /\ req.adUnits[i].code = pre.adUnits[i].code
            /\ SameOutside(Without(req.adUnits[i].ortb2Imp, WmaxPath),
                           Without(pre.adUnits[i].ortb2Imp, WmaxPath), ImpPath)
            /\ (WmaxPath \in DOMAIN req.adUnits[i].ortb2Imp
                    /\ ~(WmaxPath \in DOMAIN pre.adUnits[i].ortb2Imp
                            /\ pre.adUnits[i].ortb2Imp[WmaxPath]
                                = req.adUnits[i].ortb2Imp[WmaxPath]))
                => /\ req.adUnits[i].code \in DOMAIN stretchData
                   /\ req.adUnits[i].ortb2Imp[WmaxPath]
                        = stretchData[req.adUnits[i].code][<<"maxAvailableWidth">>]

C8_Witness ==
    /\ Merged
    /\ mergeCount = 1
    /\ variant = "sync"
    /\ Len(req.adUnits) >= 1
    /\ pre.adUnits[1].ortb2Imp = ForeignImp
    /\ req.adUnits[1].ortb2Imp[WmaxPath] # Px(640)
    /\ req.adUnits[1].ortb2Imp[<<"banner", "pos">>] = Num(1)
    /\ req.adUnits[1].ortb2Imp[<<"ext", "gpid">>] = Num(7)
    /\ Has(req.adUnits[1].ortb2Imp, ImpPath)
    /\ pre.global = ForeignGlobal
    /\ Has(req.global, RSPath)

\* C9: applying the merge again with the identical map and configuration leaves
\* the adUnits payloads (global and per bidder) and the impression-level
\* payloads as the first application left them; only timestamps may differ.
TimestampFree(t) ==
    [q \in {r \in DOMAIN t : r[Len(r)] # "timestamp"} |-> t[q]]

C9_MergeIdempotent ==
    (Merged /\ mergeCount >= 2) =>
        /\ TimestampFree(req.global) = TimestampFree(pre.global)
        /\ TimestampFree(req.bidder) = TimestampFree(pre.bidder)
        /\ req.adUnits = pre.adUnits

C9_Witness ==
    /\ Merged
    /\ mergeCount = 2
    /\ clock = 3
    /\ DOMAIN stretchData = {"ad-1", "ad-2"}
    /\ Has(req.global, RSPath)
    /\ req.global # pre.global
    /\ Len(req.adUnits) = 2
    /\ HoldsRecord(req, 1)
    /\ HoldsRecord(req, 2)
(***************************************************************************)
(* Properties of the cycle (checked under Spec).                           *)
(***************************************************************************)
\* C1: the completion callback is invoked exactly once per getBidRequestData
\* call, never twice and, once the cycle is over, never zero times, also when
\* the callback itself fails.
C1_CallbackExactlyOnce ==
    /\ cbCount <= 1
    /\ pc = "done" => cbCount = 1

\* C2: for a missing request object, missing ortb2Fragments, a failing lookup,
\* measurement or merge, nothing is raised out of the cycle, and when the cycle
\* fails the request is left as it was, without responsiveStretch data.
C2_NoFailureEscapes ==
    ~callbackThrows =>
        /\ ~escaped
        /\ pc = "done" =>
            /\ cbCount = 1
            /\ (collectThrew \/ mergeThrew \/ mergeCount = 0) => req = pre

C2_Witness ==
    /\ pc = "done"
    /\ ~callbackThrows
    /\ variant = "deferred"
    /\ mergeThrew
    /\ ~req.hasFragments
    /\ DOMAIN stretchData # {}
    /\ ~escaped
    /\ req = pre

\* what the page says about a slot code, read off the lookup outcomes directly
Hits(c) == {i \in 1..StrategyCount : dom[c][i] \in ElementIds}
Located(c) == Hits(c) # {}
FirstHit(c) == Elements[dom[c][CHOOSE i \in Hits(c) : \A j \in Hits(c) : i <= j]]
Listed(c) ==
    \E i \in 1..Len(AdUnitsOf(req, pbjsAdUnits)) :
        ~AdUnitsOf(req, pbjsAdUnits)[i].isNull /\ AdUnitsOf(req, pbjsAdUnits)[i].code = c

\* C10: the collected map has a record for a slot code if and only if the
\* slot's element was located and its geometry read without failure; the record
\* is the measurement of that element (not a zero-filled one); a miss or a
\* failed read for one slot raises nothing and the other slots are measured.
C10_RecordIffLocatedAndMeasured ==
    collectCount >= 1 =>
        /\ collectThrew =>
                \E i \in 1..Len(AdUnitsOf(req, pbjsAdUnits)) :
                    AdUnitsOf(req, pbjsAdUnits)[i].isNull
        /\ ~collectThrew =>
            /\ DOMAIN stretchData \subseteq Codes
            /\ \A c \in Codes :
                /\ c \in DOMAIN stretchData
                    <=> (Listed(c) /\ Located(c) /\ ~FirstHit(c).throws)
                /\ c \in DOMAIN stretchData =>
                    /\ stretchData[c][<<"width">>] = Px(Round(FirstHit(c).rect.width))
                    /\ stretchData[c][<<"height">>] = Px(Round(FirstHit(c).rect.height))
                    /\ stretchData[c][<<"viewportWidth">>] = Px(Round(viewport.width))

C10_Witness ==
    /\ collectCount = 1
    /\ ~collectThrew
    /\ Len(req.adUnits) = 2
    /\ req.adUnits[1].code = "ad-1"
    /\ req.adUnits[2].code = "ad-2"
    /\ Located("ad-1")
    /\ FirstHit("ad-1").throws
    /\ dom["ad-2"][1] = "miss"
    /\ dom["ad-2"][2] = "throw"
    /\ DOMAIN stretchData = {"ad-2"}
    /\ stretchData["ad-2"][<<"width">>] = Px(602)
\* C11: when the ad-unit list is empty, or no listed slot yields a measurement,
\* the call augments nothing (the whole request, with its global and bidder
\* fragments and every ad unit's ortb2Imp, is as it was at entry), for the empty
\* list no collection is attempted, and the callback is still invoked.
NoSlotMeasured ==
    \A c \in Codes : Listed(c) => ~(Located(c) /\ ~FirstHit(c).throws)

C11_NoAugmentationWithoutMeasurement ==
    (pc = "done" /\ req.defined) =>
        /\ Len(AdUnitsOf(req, pbjsAdUnits)) = 0 =>
                /\ collectCount = 0
                /\ mergeCount = 0
                /\ req = pre
                /\ cbCount >= 1
        /\ NoSlotMeasured =>
                /\ mergeCount = 0
                /\ req = pre
                /\ cbCount >= 1

C11_Witness ==
    /\ pc = "done"
    /\ req.defined
    /\ Len(AdUnitsOf(req, pbjsAdUnits)) = 2
    /\ \A i \in 1..2 : ~req.adUnits[i].isNull
    /\ req.adUnits[1].code = "ad-1"
    /\ Located("ad-1")
    /\ NoSlotMeasured
    /\ collectCount = 1
    /\ ~collectThrew
    /\ req.hasFragments
    /\ ~moduleConfig.hasParams
    /\ cbCount = 1

(***************************************************************************)
(* Properties of the measurement record (checked under SpecSpace).         *)
(***************************************************************************)
\* calculateAdSlotSpace returned a record (not null)
Returned == availableSpace.called /\ availableSpace.ok
Record == availableSpace.data
Box == [left |-> slotElement.rect.left, top |-> slotElement.rect.top,
        width |-> slotElement.rect.width, height |-> slotElement.rect.height,
        right |-> slotElement.rect.left + slotElement.rect.width,
        bottom |-> slotElement.rect.top + slotElement.rect.height]
FieldIs(k, v) == <<k>> \in DOMAIN Record /\ Record[<<k>>] = v

\* C12: for a box that lies inside the viewport (right <= viewport width,
\* bottom <= viewport height, left >= 0, top >= 0) the returned record has
\* totalAvailableWidth equal to the viewport width and totalAvailableHeight
\* equal to the viewport height, exactly.
C12_TotalAvailableIsViewport ==
    (/\ Returned
     /\ Box.right <= viewport.width
     /\ Box.bottom <= viewport.height
     /\ Box.left >= 0
     /\ Box.top >= 0) =>
        /\ FieldIs("totalAvailableWidth", Px(viewport.width))
        /\ FieldIs("totalAvailableHeight", Px(viewport.height))

\* C13: every returned record carries an isVisible field, and it is false
\* whenever the box width is 0 or the box height is 0, whatever the position
\* of the box and the size of the viewport.
C13_IsVisibleFalseForEmptyBox ==
    Returned =>
        /\ <<"isVisible">> \in DOMAIN Record
        /\ (Box.width = 0 \/ Box.height = 0) => FieldIs("isVisible", Bool(FALSE))

\* round(part / whole * 100), for a whole that is not 0
RoundedPercent(part, whole) ==
    CHOOSE n \in 0..(100 * part) \div whole + 1 :
        /\ 2 * 100 * part >= (2 * n - 1) * whole
        /\ 2 * 100 * part < (2 * n + 1) * whole

\* the box and viewport of the module's measurement test
TestBox ==
    /\ Box = [left |-> 100, top |-> 200, width |-> 600, height |-> 500,
              right |-> 700, bottom |-> 700]
    /\ viewport = [width |-> 3840, height |-> 2160]
    /\ Len(slotElement.chain) > 0

\* C14: in every returned record stretchLeft is the box's left, stretchUp its
\* top, stretchRight the viewport width minus its right, stretchDown the
\* viewport height minus its bottom (each rounded to the nearest pixel), and
\* the viewport percentages are round(width / viewport width * 100) and
\* round(height / viewport height * 100); the 300x250 box at top 100, left 50
\* in a 1920x1080 viewport gives 50, 100, 1570, 730, 16, 23, isVisible true and
\* parentWidth / parentHeight the size of the parent's box.
C14_StretchRoomAndPercentages ==
    Returned =>
        /\ FieldIs("stretchLeft", Px(Round(Box.left)))
        /\ FieldIs("stretchUp", Px(Round(Box.top)))
        /\ FieldIs("stretchRight", Px(Round(viewport.width - Box.right)))
        /\ FieldIs("stretchDown", Px(Round(viewport.height - Box.bottom)))
        /\ viewport.width # 0 =>
                FieldIs("viewportWidthPercentage",
                        Num(RoundedPercent(Box.width, viewport.width)))
        /\ viewport.height # 0 =>
                FieldIs("viewportHeightPercentage",
                        Num(RoundedPercent(Box.height, viewport.height)))
        /\ Len(slotElement.chain) > 0 =>
                /\ FieldIs("parentWidth", Px(Round(slotElement.chain[1].width)))
                /\ FieldIs("parentHeight", Px(Round(slotElement.chain[1].height)))
        /\ TestBox =>
                /\ FieldIs("stretchLeft", Px(2 * 50))
                /\ FieldIs("stretchUp", Px(2 * 100))
                /\ FieldIs("stretchRight", Px(2 * 1570))
                /\ FieldIs("stretchDown", Px(2 * 730))
                /\ FieldIs("viewportWidthPercentage", Num(16))
                /\ FieldIs("viewportHeightPercentage", Num(23))
                /\ FieldIs("isVisible", Bool(TRUE))
                /\ FieldIs("parentWidth", Px(2 * 1200))
                /\ FieldIs("parentHeight", Px(2 * 800))

\* a finite number
IsFinite(v) == v[1] = "n" \/ v[1] = "px"

\* C15: the viewportWidthPercentage and viewportHeightPercentage of a returned
\* record are always finite numbers; with a viewport width or height of 0 the
\* percentage is a fixed fallback value, never NaN or an infinity.
C15_PercentagesFinite ==
    Returned =>
        \A k \in {"viewportWidthPercentage", "viewportHeightPercentage"} :
            <<k>> \in DOMAIN Record => IsFinite(Record[<<k>>])

\* the bucket names, lowest first
Buckets == <<"low", "medium", "high">>
BucketOf(rec, dir) ==
    IF <<"stretchPotential", dir>> \in DOMAIN rec /\
       \E i \in 1..Len(Buckets) : rec[<<"stretchPotential", dir>>] = <<"s", Buckets[i]>>
    THEN CHOOSE i \in 1..Len(Buckets) : rec[<<"stretchPotential", dir>>] = <<"s", Buckets[i]>>
    ELSE 0

\* the free pixels of a box in a viewport, per direction
FreeRoom(el, vp, dir) ==
    IF dir = "horizontal" THEN vp.width - el.rect.width ELSE vp.height - el.rect.height

\* C16: every returned record has a stretchPotential object whose horizontal
\* and vertical values are each one of low, medium, high, and the buckets are
\* monotonic: of two measurements the one with more free pixels in a direction
\* never gets the lower bucket in that direction.
C16_StretchPotentialBuckets ==
    Returned =>
        \A dir \in {"horizontal", "vertical"} :
            /\ BucketOf(Record, dir) \in 1..Len(Buckets)
            /\ \A other \in SpaceElements :
                    LET rec == calculateAdSlotSpace(variant, other, viewport)
                    IN  (rec.ok /\ FreeRoom(other, viewport, dir) >=
                                       FreeRoom(slotElement, viewport, dir)) =>
                            BucketOf(rec.data, dir) >= BucketOf(Record, dir)

(***************************************************************************)
(* Properties of the configuration (checked under SpecConfig).             *)
(***************************************************************************)
\* the configuration with every field of an unexpected type replaced by its
\* default: true for a flag, the empty array for the bidders
Defaulted(cfg) ==
    [hasParams |-> cfg.hasParams,
     bidders |-> IF cfg.bidders.kind \in {"array", "undefined"} THEN cfg.bidders
                 ELSE [kind |-> "array", items |-> <<>>],
     global |-> IF cfg.global = "nonbool" THEN "true" ELSE cfg.global,
     impLevel |-> IF cfg.impLevel = "nonbool" THEN "true" ELSE cfg.impLevel]

\* C17: a configuration field of an unexpected type behaves exactly like its
\* default: with a non-boolean global or impLevel the merge gives what it gives
\* with true, with a non-array bidders what it gives with the empty bidder set;
\* init returns true (having stored the configuration as given) and the merge
\* raises nothing.
C17_MistypedFieldActsAsDefault ==
    /\ initResult.called => (initResult.returned /\ savedConfig = moduleConfig)
    /\ mergeCount >= 1 =>
            /\ ~mergeThrew
            /\ req = addStretchDataToORTB2(variant, pre, stretchData,
                                           Defaulted(moduleConfig), viewport,
                                           clock - 1).req

C17_Witness ==
    /\ initResult.called
    /\ initResult.warnings = {"bidders", "global", "impLevel"}
    /\ mergeCount = 1
    /\ moduleConfig # Defaulted(moduleConfig)
    /\ Has(req.global, RSPath)
    /\ ~Has(pre.global, RSPath)
    /\ \E i \in 1..Len(req.adUnits) : Has(req.adUnits[i].ortb2Imp, ImpPath)

(***************************************************************************)
(* Properties of the ancestor walk (checked under SpecWalk).               *)
(***************************************************************************)
\* the element, then its parentElement chain
WalkPath ==
    <<Ancestor(slotElement.rect.width, slotElement.rect.height,
               slotElement.display, slotElement.position)>> \o slotElement.chain

\* the nodes from the element upwards that lie below the document body
BelowBody == {i \in 1..Len(WalkPath) : \A j \in 1..i : ~WalkPath[j].isBody}

\* nodes that are neither display:contents nor absolutely positioned
InFlow(i) == WalkPath[i].display # "contents" /\ WalkPath[i].position # "absolute"

\* the least width among the nodes S, unbounded when there is none
LeastWidth(S) ==
    IF S = {} THEN JsInfinity
    ELSE Px(CHOOSE w \in {WalkPath[i].width : i \in S} :
                \A i \in S : w <= WalkPath[i].width)

\* a <= b for widths, Infinity being the greatest
WidthLeq(a, b) == b = JsInfinity \/ (a # JsInfinity /\ a[2] <= b[2])

\* C18 as stated: maxAvailableWidth is the minimum width over the ancestors
\* below the document body that are neither display:contents nor absolutely
\* positioned, the element's own width not being part of the minimum, and
\* unbounded when there is no such ancestor.
C18_Original_MinOverAncestorsOnly ==
    walk.returned =>
        walk.maxWidth = LeastWidth({i \in BelowBody \ {1} : InFlow(i)})

\* C18: maxAvailableWidth is the minimum width over the element itself and its
\* ancestors below the document body, leaving out every node that is
\* display:contents or absolutely positioned; it is unbounded when no node
\* remains; the record carries that value rounded.
C18_MinOverElementAndAncestors ==
    walk.returned =>
        /\ walk.maxWidth = LeastWidth({i \in BelowBody : InFlow(i)})
        /\ walk.maxWidth = getMaxAvailableWidth(slotElement)
        /\ FieldIs("maxAvailableWidth",
                   RoundLeaf(LeastWidth({i \in BelowBody : InFlow(i)})))

C18_Witness ==
    /\ walk.returned
    /\ InFlow(1)
    /\ Len(slotElement.chain) = 2
    /\ 2 \in BelowBody /\ InFlow(2)
    /\ WalkPath[1].width < WalkPath[2].width
    /\ walk.maxWidth = Px(WalkPath[1].width)

\* the running maximum before the k-th visited node
Before(k) == IF k = 1 THEN JsInfinity ELSE walk.trail[k - 1]

\* the chain element -> absolutely positioned ancestor -> outer ancestor
AbsoluteMiddle ==
    /\ Len(slotElement.chain) >= 2
    /\ BelowBody = {1, 2, 3}
    /\ WalkPath[2].position = "absolute"
    /\ InFlow(3)

\* C19: the running maximum only tightens, and a node that is absolutely
\* positioned or display:contents never tightens it; on a chain element ->
\* absolutely positioned ancestor of width A -> outer ancestor of width B the
\* result is not lowered by A: it is the least of the in-flow widths among the
\* element's and B, so never below min(element width, B).
C19_OnlyInFlowNodesTighten ==
    /\ \A k \in 1..Len(walk.trail) :
            /\ WidthLeq(walk.trail[k], Before(k))
            /\ ~InFlow(walk.visited[k]) => walk.trail[k] = Before(k)
    /\ (walk.returned /\ AbsoluteMiddle) =>
            /\ walk.maxWidth = LeastWidth({i \in {1, 3} : InFlow(i)})
            /\ WidthLeq(LeastWidth({1, 3}), walk.maxWidth)

C19_Witness ==
    /\ walk.returned
    /\ AbsoluteMiddle
    /\ InFlow(1)
    /\ WalkPath[2].display = "block"
    /\ WalkPath[2].width < WalkPath[1].width
    /\ WalkPath[2].width < WalkPath[3].width
    /\ walk.maxWidth = Px(WalkPath[1].width)
    /\ walk.trail[2] = walk.trail[1]

\* C20: on every finite chain the walk terminates, having visited every node
\* from the element upwards that lies below the document body exactly once
\* and in order: nothing but the body or the end of the parents stops it.
C20_WalkTerminatesHavingVisitedAll ==
    <>(/\ walk.returned
       /\ walk.visited = [k \in 1..Cardinality(BelowBody) |-> k])

C20_Witness ==
    /\ walk.returned
    /\ Len(slotElement.chain) = MaxDepth
    /\ BelowBody = 1..(MaxDepth + 1)
    /\ \E i \in BelowBody : WalkPath[i].position = "absolute"
    /\ \E i \in BelowBody : WalkPath[i].display = "contents"
    /\ Len(walk.visited) = MaxDepth + 1

(***************************************************************************)
(* Properties of the element lookup (checked under SpecLookup).            *)
(***************************************************************************)
\* the order of the strategies as the documentation lists it
DocumentedOrder ==
    <<"getElementById", "idAttribute", "dataAdUnitCode", "dataAdunitcode",
      "idSubstring", "classSubstring">>

\* the positions at which a strategy yields an element for the code searched
Yielding == {i \in 1..6 : dom[search.code][i] \in ElementIds}
FirstYielding == CHOOSE i \in Yielding : \A j \in Yielding : i <= j

\* C21: findAdSlotElement tries its six strategies in the fixed order exact
\* id, id attribute, data-ad-unit-code, data-adunitcode, id substring, class
\* substring; it returns the element of the first strategy that yields one and
\* tries none after it; a strategy that throws counts as a miss; it returns
\* null only when all six missed or threw, and it never raises.
C21_FirstYieldingStrategyWins ==
    /\ ~search.raised
    /\ search.tried = SubSeq(DocumentedOrder, 1, Len(search.tried))
    /\ search.returned =>
            /\ Yielding # {} =>
                    /\ search.result = dom[search.code][FirstYielding]
                    /\ search.tried = SubSeq(DocumentedOrder, 1, FirstYielding)
                    /\ findAdSlotElement(dom, search.code) = Elements[search.result]
            /\ Yielding = {} =>
                    /\ search.result = "null"
                    /\ search.tried = DocumentedOrder
                    /\ findAdSlotElement(dom, search.code) = NoElement

C21_Witness ==
    /\ search.returned
    /\ dom[search.code][1] = "miss"
    /\ dom[search.code][2] = "throw"
    /\ dom[search.code][3] = "e2"
    /\ dom[search.code][6] = "e1"
    /\ search.result = "e2"
    /\ Len(search.tried) = 3

(***************************************************************************)
(* Properties of the order of a cycle (checked under Spec).                *)
(***************************************************************************)
At(e) == {k \in 1..Len(events) : events[k] = e}

\* C22: within one cycle the merge step runs at most once, only after the
\* collection of every slot's measurement has ended, and always before the
\* callback is invoked; nothing is collected or merged after the callback, and
\* the request changes through the merge step only.
C22_MergeOnceAfterCollectBeforeCallback ==
    /\ Cardinality(At("merge")) <= 1
    /\ mergeCount = Cardinality(At("merge"))
    /\ Cardinality(At("collect")) <= 1
    /\ \A m \in At("merge") :
            /\ At("collect") # {}
            /\ \A c \in At("collect") : c < m
            /\ \A b \in At("callback") : m < b
    /\ \A c \in At("collect") : \A b \in At("callback") : c < b
    /\ cbCount = Cardinality(At("callback"))
    /\ cbCount >= 1 => pc = "done"
    /\ req # pre => At("merge") # {}

C22_Witness ==
    /\ variant = "deferred"
    /\ pc = "done"
    /\ events = <<"collect", "merge", "callback">>
    /\ Len(req.adUnits) = 2
    /\ DOMAIN stretchData = {"ad-1", "ad-2"}
    /\ req # pre

(***************************************************************************)
(* Properties of the scopes of a cycle (checked under Spec).               *)
(***************************************************************************)
\* the slot codes with a record in the global adUnits map, or in a bidder's
GloballyRecorded == Keys(req.global, RSPath \o <<"adUnits">>)
BidderRecorded ==
    UNION {Keys(req.bidder, <<b>> \o RSPath \o <<"adUnits">>) : b \in BidderNames}

\* the ad units the cycle worked on
CycleAdUnits == AdUnitsOf(req, pbjsAdUnits)

\* C24: when the impression flag is enabled, every slot that got a record in
\* the global or a bidder's adUnits map during the cycle also has the
\* impression-level record on each of its ad units, also when the request
\* carries no adUnits and the slots come from the page-wide ad-unit list.
C24_RecordedSlotsGetImpressionRecord ==
    (pc = "done" /\ mergeCount = 1 /\ ~mergeThrew /\ ImpressionFlag) =>
        \A c \in GloballyRecorded \cup BidderRecorded :
            /\ \E i \in 1..Len(CycleAdUnits) : CycleAdUnits[i].code = c
            /\ \A i \in 1..Len(CycleAdUnits) :
                    CycleAdUnits[i].code = c =>
                        Has(CycleAdUnits[i].ortb2Imp, ImpPath)

(***************************************************************************)
(* Properties of the layout reads (checked under SpecReads).               *)
(***************************************************************************)
CallComplete == Len(reads) = Len(ReadPlan(variant, slotElement))
ReadsOf(what, node) ==
    {k \in 1..Len(reads) : reads[k].what = what /\ reads[k].node = node}

\* C23: within one calculateAdSlotSpace call the element's bounding box and
\* the viewport size are each read from the host layout exactly once, so the
\* values a record takes from either of them all belong to one layout, even
\* when the host reflows during the call.
C23_BoxAndViewportReadOnce ==
    CallComplete =>
        /\ Cardinality(ReadsOf("box", 1)) = 1
        /\ Cardinality(ReadsOf("viewport", 0)) = 1
        /\ \A j, k \in ReadsOf("box", 1) : reads[j].layout = reads[k].layout

====
